---- MODULE Spec2Model ----
(***************************************************************************)
(* The random exploration policy of earthquake                             *)
(* (earthquake/explorepolicy/random/randompolicy.go).                      *)
(*                                                                         *)
(* Durations are integers (time.Duration is an int64 count of ticks).      *)
(* Probabilities are float64 in the code; here they are fixed-point        *)
(* integers, ProbScale units to 1.0, so that int(p*1000.0) truncates.      *)
(*                                                                         *)
(* Specifications:                                                         *)
(*   SpecLoad   - LoadConfig called again and again by one caller          *)
(*   SpecDecide - makeActionForEvent applied to one event and one draw     *)
(*   SpecRace   - LoadConfig and QueueEvent callers interleaved statement  *)
(*                by statement (the code holds no lock)                    *)
(*   Spec       - the engine: caller, queue, dequeue routine, shell        *)
(*                routine and the consumer of the action channel           *)
(*   FairSpec   - Spec with the scheduler's fairness                       *)
(*   SpecBounds - LoadConfig calls giving the intervals, and QueueEvent     *)
(***************************************************************************)
EXTENDS Integers, Sequences, FiniteSets, TLC

VARIABLES
    r,          \* the Random struct's parameters and shelActionRoutineRunning
    shell,      \* the shellFaultInjectionRoutine goroutines spawned so far
    lastCfg,    \* SpecLoad: the configuration of the latest LoadConfig call
    lastErr,    \* SpecLoad: what the latest LoadConfig call returned
    called,     \* SpecLoad: whether LoadConfig has been called at all
    repeated,   \* SpecLoad: the latest call repeated the configuration before it
    dEvent,     \* SpecDecide: the event given to makeActionForEvent
    dDraw,      \* SpecDecide: what rand.Intn(999) returns in that call
    dResult,    \* SpecDecide: the (action, error) the call returned
    decided,    \* SpecDecide: whether the call has been made
    events,     \* the events passed to QueueEvent so far, in call order
    tbq,        \* the items the time-bounded queue holds and has not released
    deq,        \* dequeueEventRoutine: its position, its event and its action
    out,        \* the dequeue routine's actions the consumer has received, in order
    shellSent,  \* whether the consumer has received a shell action
    crashed,    \* the panic that ended the process, if any
    lpc,        \* SpecRace: where each LoadConfig caller stands in LoadConfig
    lcfg,       \* SpecRace: the configuration each LoadConfig caller passed
    qpc,        \* SpecRace: where the QueueEvent caller stands in QueueEvent
    qloc,       \* SpecRace: QueueEvent's event, minInterval and maxInterval
    snaps       \* SpecRace: (MinInterval, MaxInterval) as it stood when a LoadConfig
                \* call began or returned

loadVars == <<lastCfg, lastErr, called, repeated>>

decideVars == <<dEvent, dDraw, dResult, decided>>

pipeVars == <<events, tbq, deq, out, shellSent, crashed>>

raceVars == <<lpc, lcfg, qpc, qloc, snaps>>

vars == <<r, shell, loadVars, decideVars, pipeVars, raceVars>>

----------------------------------------------------------------------------
(* Arithmetic *)

\* Go's conversion of a float64 to an integer type truncates toward zero.
TruncDiv(a, b) ==
    IF a >= 0 THEN a \div b ELSE -((-a) \div b)

\* Fixed-point unit of the float64 probabilities: ProbScale stands for 1.0.
ProbScale == 10000

\* The 1000.0 of int(r.FaultActionProbability*1000.0).
Permille == 1000

\* The 999 of rand.Intn(999): draws are 0..998.
RandN == 999

\* The magic coefficient 0.8 of QueueEvent, as PrioritizeNum/PrioritizeDen.
PrioritizeNum == 8

PrioritizeDen == 10

----------------------------------------------------------------------------
(* Configuration sources (config.Config): a key is set or not *)

Keys ==
    {"minInterval", "maxInterval", "prioritizedEntities", "shellActionInterval",
     "shellActionCommand", "faultActionProbability", "procResetSchedProbability"}

\* A configuration maps each key to {} (not set) or to {value}.
IsSet(cfg, key) ==
    cfg[key] # {}

Get(cfg, key) ==
    CHOOSE v \in cfg[key] : TRUE

NoError == "nil"

Entities == {"a", "b"}

\* Values a configuration file may give each key.
KeyValues ==
    [minInterval               |-> {0, 10},
     maxInterval               |-> {5},
     prioritizedEntities       |-> {{"a"}, {"b"}},
     shellActionInterval       |-> {-5, 0, 5},
     shellActionCommand        |-> {"cmd"},
     faultActionProbability    |-> {-1000, 0, 10000, 11000},
     procResetSchedProbability |-> {5000, 11000}]

SetKeys(cfg) ==
    {k \in Keys : IsSet(cfg, k)}

EmptyConfig ==
    [k \in Keys |-> {}]

Opt(S) ==
    {{}} \cup {{v} : v \in S}

\* Every configuration source: each key not set, or set to one of its values.
Configs ==
    [minInterval               : Opt(KeyValues.minInterval),
     maxInterval               : Opt(KeyValues.maxInterval),
     prioritizedEntities       : Opt(KeyValues.prioritizedEntities),
     shellActionInterval       : Opt(KeyValues.shellActionInterval),
     shellActionCommand        : Opt(KeyValues.shellActionCommand),
     faultActionProbability    : Opt(KeyValues.faultActionProbability),
     procResetSchedProbability : Opt(KeyValues.procResetSchedProbability)]

----------------------------------------------------------------------------
(* New *)

NewRandom ==
    [MinInterval               |-> 0,
     MaxInterval               |-> 0,
     PrioritizedEntities       |-> {},
     ShellActionInterval       |-> 0,
     ShellActionCommand        |-> "",
     FaultActionProbability    |-> 0,
     ProcResetSchedProbability |-> ProbScale \div 10,
     shelActionRoutineRunning  |-> FALSE]

----------------------------------------------------------------------------
(* LoadConfig, statement by statement *)

SetMinInterval(s, cfg) ==
    IF IsSet(cfg, "minInterval")
    THEN [s EXCEPT !.MinInterval = Get(cfg, "minInterval")]
    ELSE s

\* A bug: an absent maxInterval keeps its prior value.
SetMaxInterval_KeepsPrior(s, cfg) ==
    IF IsSet(cfg, "maxInterval")
    THEN [s EXCEPT !.MaxInterval = Get(cfg, "maxInterval")]
    ELSE s

SetMaxInterval(s, cfg) ==
    IF IsSet(cfg, "maxInterval")
    THEN [s EXCEPT !.MaxInterval = Get(cfg, "maxInterval")]
    ELSE [s EXCEPT !.MaxInterval = s.MinInterval]

\* A bug: the listed entities replace the set.
SetPrioritizedEntities_Replaces(s, cfg) ==
    IF IsSet(cfg, "prioritizedEntities")
    THEN [s EXCEPT !.PrioritizedEntities = Get(cfg, "prioritizedEntities")]
    ELSE s

SetPrioritizedEntities(s, cfg) ==
    IF IsSet(cfg, "prioritizedEntities")
    THEN [s EXCEPT !.PrioritizedEntities = @ \cup Get(cfg, "prioritizedEntities")]
    ELSE s

SetShellActionInterval(s, cfg) ==
    IF IsSet(cfg, "shellActionInterval")
    THEN [s EXCEPT !.ShellActionInterval = Get(cfg, "shellActionInterval")]
    ELSE s

SetShellActionCommand(s, cfg) ==
    IF IsSet(cfg, "shellActionCommand")
    THEN [s EXCEPT !.ShellActionCommand = Get(cfg, "shellActionCommand")]
    ELSE s

ShellIntervalNegative(s) ==
    s.ShellActionInterval < 0

\* A bug: the routine is started whatever the interval is.
MustStartShellRoutine_AnyInterval(s) ==
    ~s.shelActionRoutineRunning

\* A bug: the running flag is not consulted.
MustStartShellRoutine_IgnoresFlag(s) ==
    s.ShellActionInterval > 0

MustStartShellRoutine(s) ==
    s.ShellActionInterval > 0 /\ ~s.shelActionRoutineRunning

SetRoutineRunning(s) ==
    [s EXCEPT !.shelActionRoutineRunning = TRUE]

SetFaultActionProbability(s, cfg) ==
    IF IsSet(cfg, "faultActionProbability")
    THEN [s EXCEPT !.FaultActionProbability = Get(cfg, "faultActionProbability")]
    ELSE s

\* A bug: the upper boundary 1.0 is rejected.
BadFaultActionProbability_RejectsOne(s) ==
    s.FaultActionProbability < 0 \/ s.FaultActionProbability >= ProbScale

BadFaultActionProbability(s) ==
    s.FaultActionProbability < 0 \/ s.FaultActionProbability > ProbScale

SetProcResetSchedProbability(s, cfg) ==
    IF IsSet(cfg, "procResetSchedProbability")
    THEN [s EXCEPT !.ProcResetSchedProbability = Get(cfg, "procResetSchedProbability")]
    ELSE s

BadProcResetSchedProbability(s) ==
    s.ProcResetSchedProbability < 0 \/ s.ProcResetSchedProbability > ProbScale

\* A bug (or another design): the call validates everything first and a
\* rejected call leaves the engine as it was.
LoadConfigResult_Transactional(s, cfg) ==
    LET s5 == SetShellActionCommand(
                  SetShellActionInterval(
                      SetPrioritizedEntities(
                          SetMaxInterval(SetMinInterval(s, cfg), cfg), cfg), cfg), cfg)
        start == MustStartShellRoutine(s5)
        s6 == IF start THEN SetRoutineRunning(s5) ELSE s5
        s7 == SetFaultActionProbability(s6, cfg)
        s8 == SetProcResetSchedProbability(s7, cfg)
    IN  IF ShellIntervalNegative(s5)
        THEN [r |-> s, err |-> "shellActionInterval must be non-negative", spawn |-> FALSE]
        ELSE IF BadFaultActionProbability(s7)
        THEN [r |-> s, err |-> "bad faultActionProbability", spawn |-> FALSE]
        ELSE IF BadProcResetSchedProbability(s8)
        THEN [r |-> s, err |-> "bad procResetSchedProbability", spawn |-> FALSE]
        ELSE [r |-> s8, err |-> NoError, spawn |-> start]

\* The whole call, run by one caller with nothing interleaved: the engine it
\* leaves, the error it returns, and whether it spawned the shell routine.
LoadConfigResult(s, cfg) ==
    LET s5 == SetShellActionCommand(
                  SetShellActionInterval(
                      SetPrioritizedEntities(
                          SetMaxInterval(SetMinInterval(s, cfg), cfg), cfg), cfg), cfg)
        start == MustStartShellRoutine(s5)
        s6 == IF start THEN SetRoutineRunning(s5) ELSE s5
        s7 == SetFaultActionProbability(s6, cfg)
        s8 == SetProcResetSchedProbability(s7, cfg)
    IN  IF ShellIntervalNegative(s5)
        THEN [r |-> s5, err |-> "shellActionInterval must be non-negative", spawn |-> FALSE]
        ELSE IF BadFaultActionProbability(s7)
        THEN [r |-> s7, err |-> "bad faultActionProbability", spawn |-> start]
        ELSE IF BadProcResetSchedProbability(s8)
        THEN [r |-> s8, err |-> "bad procResetSchedProbability", spawn |-> start]
        ELSE [r |-> s8, err |-> NoError, spawn |-> start]

\* A goroutine running shellFaultInjectionRoutine, about to execute its first statement.
NewShellRoutine ==
    [pc |-> "start", timer |-> 0, cmd |-> ""]

\* LoadConfig(cfg) by a caller that nothing interleaves with.
LoadConfig(cfg) ==
    LET res == LoadConfigResult(r, cfg)
    IN  /\ r' = res.r
        /\ shell' = IF res.spawn THEN Append(shell, NewShellRoutine) ELSE shell

----------------------------------------------------------------------------
(* Events and actions (package signal) *)

ProcSetEvent == "ProcSetEvent"

OtherEvent == "Event"

\* An event: its identity, its entity, its Go type, whether DefaultAction()
\* succeeds and whether DefaultFaultAction() gives an action.
EventsOf(ids) ==
    [id : ids, entity : Entities, type : {ProcSetEvent, OtherEvent},
     defaultOK : BOOLEAN, hasFault : BOOLEAN]

NilAction == "nil"

\* event.DefaultAction(): (action, nil), or (nil, error) for an event kind
\* that has no default action.
DefaultAction(ev) ==
    IF ev.defaultOK
    THEN [class |-> "DefaultAction", err |-> NoError]
    ELSE [class |-> NilAction, err |-> "no default action"]

\* event.DefaultFaultAction(): (action, nil), or (nil, nil) when the event
\* kind has no fault variant.
DefaultFaultAction(ev) ==
    IF ev.hasFault
    THEN [class |-> "FaultAction", err |-> NoError]
    ELSE [class |-> NilAction, err |-> NoError]

\* The handler of process-scheduling events; its rule is not part of the
\* policy file, so the action it decides is left abstract.
makeActionForProcSetEvent(s, ev) ==
    [class |-> "ProcSetSchedAction", err |-> NoError]

----------------------------------------------------------------------------
(* makeActionForEvent *)

\* A bug: the probability is taken in percent.
FaultThreshold_Percent(s) ==
    TruncDiv(s.FaultActionProbability * 100, ProbScale)

\* int(r.FaultActionProbability*1000.0)
FaultThreshold(s) ==
    TruncDiv(s.FaultActionProbability * Permille, ProbScale)

\* What rand.Intn(999) can return.
Draws ==
    0 .. (RandN - 1)

\* A bug: the nil check of the fault action is missing.
makeActionForEvent_NoNilCheck(s, ev, draw) ==
    IF ev.type = ProcSetEvent
    THEN makeActionForProcSetEvent(s, ev)
    ELSE IF draw < FaultThreshold(s) THEN DefaultFaultAction(ev) ELSE DefaultAction(ev)

makeActionForEvent(s, ev, draw) ==
    IF ev.type = ProcSetEvent
    THEN makeActionForProcSetEvent(s, ev)
    ELSE LET default == DefaultAction(ev)
             fault == DefaultFaultAction(ev)
         IN  IF fault.class = NilAction
             THEN default
             ELSE IF draw < FaultThreshold(s) THEN fault ELSE default

----------------------------------------------------------------------------
(* SpecDecide: one call of makeActionForEvent, for every event kind, every *)
(* draw of rand.Intn(999) and a sample of stored probabilities             *)

\* Stored values of FaultActionProbability: 0, 0.0001, 0.001, 0.0015, 0.5,
\* 0.5005, 0.999, 0.9999, 1, and the out-of-range -0.1, -0.0001 and 1.1
\* that a rejected LoadConfig call leaves behind.
ProbSamples ==
    {0, 1, 10, 15, 5000, 5005, 9990, 9999, 10000, -1000, -1, 11000}

NoEvent ==
    [id |-> 0, entity |-> "a", type |-> OtherEvent, defaultOK |-> TRUE, hasFault |-> FALSE]

NoResult ==
    [class |-> NilAction, err |-> NoError]

LoadIdle ==
    /\ lastCfg = EmptyConfig
    /\ lastErr = NoError
    /\ called = FALSE
    /\ repeated = FALSE

NoPanic == "none"

\* dequeueEventRoutine blocked in qItem := <-r.queueDeqCh
DeqWaiting ==
    [pc |-> "recv", ev |-> NoEvent, action |-> NoResult]

\* The engine New() returns: nothing queued, the dequeue routine started.
PipeIdle ==
    /\ events = <<>>
    /\ tbq = {}
    /\ deq = DeqWaiting
    /\ out = <<>>
    /\ shellSent = FALSE
    /\ crashed = NoPanic

\* The LoadConfig callers of SpecRace.
NumLoaders == 2

Loaders ==
    1 .. NumLoaders

\* No LoadConfig or QueueEvent call is in progress.
RaceIdle ==
    /\ lpc = [l \in Loaders |-> "idle"]
    /\ lcfg = [l \in Loaders |-> EmptyConfig]
    /\ qpc = "idle"
    /\ qloc = [ev |-> NoEvent, minInterval |-> 0, maxInterval |-> 0]
    /\ snaps = {}

DecideIdle ==
    /\ dEvent = NoEvent
    /\ dDraw = 0
    /\ dResult = NoResult
    /\ decided = FALSE

InitDecide ==
    /\ r \in {[NewRandom EXCEPT !.FaultActionProbability = p] : p \in ProbSamples}
    /\ shell = <<>>
    /\ LoadIdle
    /\ dEvent \in EventsOf({1})
    /\ dDraw \in Draws
    /\ dResult = NoResult
    /\ decided = FALSE
    /\ PipeIdle
    /\ RaceIdle

Decide ==
    /\ ~decided
    /\ dResult' = makeActionForEvent(r, dEvent, dDraw)
    /\ decided' = TRUE
    /\ UNCHANGED <<r, shell, loadVars, dEvent, dDraw, pipeVars, raceVars>>

NextDecide ==
    Decide

SpecDecide ==
    InitDecide /\ [][NextDecide]_vars

\* C5: for an event that is no process-scheduling event and exposes a fault
\* action, makeActionForEvent returns the fault action exactly when the draw
\* (0..998) is less than floor(faultActionProbability * 1000), and what
\* DefaultAction gave otherwise; so probability 0 never yields the fault
\* action and probability 1 always does.
C5_WeightedTrial ==
    (decided /\ dEvent.type # ProcSetEvent /\ dEvent.hasFault) =>
        /\ dDraw \in 0 .. 998
        /\ IF (dDraw + 1) * ProbScale <= r.FaultActionProbability * 1000
           THEN dResult = [class |-> "FaultAction", err |-> NoError]
           ELSE /\ dResult.class = (IF dEvent.defaultOK THEN "DefaultAction" ELSE NilAction)
                /\ (dResult.err = NoError) <=> dEvent.defaultOK
        /\ r.FaultActionProbability = 0 => dResult.class # "FaultAction"
        /\ r.FaultActionProbability = ProbScale => dResult.class = "FaultAction"

\* Probability 0.5005 and draw 499: below floor(500.5) = 500, the fault action.
C5_Witness ==
    /\ decided
    /\ dEvent.type # ProcSetEvent
    /\ dEvent.hasFault
    /\ r.FaultActionProbability = 5005
    /\ dDraw = 499
    /\ dResult.class = "FaultAction"

\* C6: for an event that is no process-scheduling event and exposes no fault
\* action, makeActionForEvent returns what DefaultAction gave, for every
\* faultActionProbability and every draw.
C6_NoFaultActionAlwaysDefault ==
    (decided /\ dEvent.type # ProcSetEvent /\ ~dEvent.hasFault) =>
        IF dEvent.defaultOK
        THEN dResult = [class |-> "DefaultAction", err |-> NoError]
        ELSE dResult.class = NilAction /\ dResult.err # NoError

\* Probability 1 and draw 0, where a fault action would have been chosen had there been one.
C6_Witness ==
    /\ decided
    /\ dEvent.type # ProcSetEvent
    /\ ~dEvent.hasFault
    /\ dEvent.defaultOK
    /\ r.FaultActionProbability = ProbScale
    /\ dDraw = 0
    /\ dResult.class = "DefaultAction"

----------------------------------------------------------------------------
(* SpecLoad: one caller, one LoadConfig call after the other.  The caller   *)
(* holds a configuration source (lastCfg) from its first call with it until *)
(* it drops it; while it holds it, it may call LoadConfig with it again.    *)

InitLoad ==
    /\ r = NewRandom
    /\ shell = <<>>
    /\ LoadIdle
    /\ DecideIdle
    /\ PipeIdle
    /\ RaceIdle

\* The caller obtains a configuration source and calls LoadConfig with it.
LoadCall ==
    /\ ~called
    /\ \E cfg \in Configs :
           /\ LoadConfig(cfg)
           /\ lastErr' = LoadConfigResult(r, cfg).err
           /\ lastCfg' = cfg
    /\ called' = TRUE
    /\ repeated' = FALSE
    /\ UNCHANGED <<decideVars, pipeVars, raceVars>>

\* The caller calls LoadConfig again with the configuration source it holds.
ReloadCall ==
    /\ called
    /\ LoadConfig(lastCfg)
    /\ lastErr' = LoadConfigResult(r, lastCfg).err
    /\ repeated' = TRUE
    /\ UNCHANGED <<lastCfg, called, decideVars, pipeVars, raceVars>>

\* The caller drops the configuration source and the result of its call.
DropConfig ==
    /\ called
    /\ lastCfg' = EmptyConfig
    /\ lastErr' = NoError
    /\ called' = FALSE
    /\ repeated' = FALSE
    /\ UNCHANGED <<r, shell, decideVars, pipeVars, raceVars>>

NextLoad ==
    \/ LoadCall
    \/ ReloadCall
    \/ DropConfig

SpecLoad ==
    InitLoad /\ [][NextLoad]_vars

----------------------------------------------------------------------------
(* Claims about LoadConfig, under SpecLoad *)

InUnitInterval(p) ==
    0 <= p /\ p <= ProbScale

\* C3: in every reachable state of the engine, also after LoadConfig calls
\* that returned an error, the stored faultActionProbability and
\* procResetSchedProbability are both within [0,1].
C3_ProbabilitiesInRange ==
    /\ InUnitInterval(r.FaultActionProbability)
    /\ InUnitInterval(r.ProcResetSchedProbability)

\* C9: LoadConfig is idempotent: a call that repeats the configuration of the
\* call before it leaves the whole engine (the seven parameters, the running
\* flag and the shell routines spawned) as the first call left it, and
\* returns what the first call returned.
C9_LoadConfigIdempotent ==
    [][repeated' => (r' = r /\ shell' = shell /\ lastErr' = lastErr)]_vars

\* A repeated call has happened, with a configuration that started the shell routine.
C9_Witness ==
    /\ repeated
    /\ lastCfg.shellActionInterval = {5}
    /\ lastCfg.prioritizedEntities = {{"a"}}
    /\ r.shelActionRoutineRunning
    /\ Len(shell) = 1

\* The value a parameter has once the call's keys are applied to the engine s.
Applied(s, cfg, key, field) ==
    IF cfg[key] # {} THEN CHOOSE v \in cfg[key] : TRUE ELSE s[field]

RejectedByRule(s, cfg) ==
    \/ Applied(s, cfg, "shellActionInterval", "ShellActionInterval") < 0
    \/ ~InUnitInterval(Applied(s, cfg, "faultActionProbability", "FaultActionProbability"))
    \/ ~InUnitInterval(Applied(s, cfg, "procResetSchedProbability", "ProcResetSchedProbability"))

\* C10: a LoadConfig call returns an error exactly when, with the keys of the
\* call applied, shellActionInterval is negative or faultActionProbability or
\* procResetSchedProbability lies outside [0,1]; so -0.1 and 1.1 are rejected
\* and 0.0 and 1.0 are accepted.
C10_ErrorExactlyWhenInvalid ==
    [][called' => ((lastErr' # NoError) <=> RejectedByRule(r, lastCfg'))]_vars

\* A call that supplied faultActionProbability = 1.1 to a valid engine has returned an error.
C10_Witness ==
    /\ called
    /\ lastCfg.faultActionProbability = {11000}
    /\ lastCfg.shellActionInterval = {}
    /\ lastErr = "bad faultActionProbability"
    /\ InUnitInterval(r.ProcResetSchedProbability)

\* The field of Random that holds each parameter.
FieldOf ==
    [minInterval               |-> "MinInterval",
     maxInterval               |-> "MaxInterval",
     prioritizedEntities       |-> "PrioritizedEntities",
     shellActionInterval       |-> "ShellActionInterval",
     shellActionCommand        |-> "ShellActionCommand",
     faultActionProbability    |-> "FaultActionProbability",
     procResetSchedProbability |-> "ProcResetSchedProbability"]

\* C11: LoadConfig is a partial update: every parameter whose key is absent
\* from the configuration of the call keeps the value it had before the call,
\* except maxInterval, which when absent is set to the value minInterval has
\* after the call, whatever maxInterval was before.
C11_PartialUpdate ==
    [][called' =>
          /\ \A k \in Keys \ {"maxInterval"} :
                 ~IsSet(lastCfg', k) => r'[FieldOf[k]] = r[FieldOf[k]]
          /\ ~IsSet(lastCfg', "maxInterval") => r'.MaxInterval = r'.MinInterval]_vars

\* A call that set minInterval alone, on an engine whose maxInterval an
\* earlier call had set to 5 and whose command an earlier call had set.
C11_Witness ==
    /\ called
    /\ ~repeated
    /\ SetKeys(lastCfg) = {"minInterval"}
    /\ r.MinInterval = 10
    /\ r.MaxInterval = 10
    /\ r.ShellActionCommand = "cmd"
    /\ r.PrioritizedEntities = {"a"}

\* The call ended on the negative-shellActionInterval error: the supplied
\* intervals, entities, shell interval and command are applied, the two
\* probabilities, the running flag and the shell routines are as before.
AfterShellIntervalError ==
    /\ r'.MinInterval = Applied(r, lastCfg', "minInterval", "MinInterval")
    /\ r'.MaxInterval = IF IsSet(lastCfg', "maxInterval")
                        THEN Get(lastCfg', "maxInterval")
                        ELSE r'.MinInterval
    /\ r'.PrioritizedEntities =
           r.PrioritizedEntities \cup
               (IF IsSet(lastCfg', "prioritizedEntities")
                THEN Get(lastCfg', "prioritizedEntities") ELSE {})
    /\ r'.ShellActionInterval =
           Applied(r, lastCfg', "shellActionInterval", "ShellActionInterval")
    /\ r'.ShellActionCommand =
           Applied(r, lastCfg', "shellActionCommand", "ShellActionCommand")
    /\ r'.FaultActionProbability = r.FaultActionProbability
    /\ r'.ProcResetSchedProbability = r.ProcResetSchedProbability
    /\ r'.shelActionRoutineRunning = r.shelActionRoutineRunning
    /\ shell' = shell

\* The call ended on the faultActionProbability error: the supplied value is
\* stored, procResetSchedProbability is as before.
AfterFaultProbabilityError ==
    /\ r'.FaultActionProbability =
           Applied(r, lastCfg', "faultActionProbability", "FaultActionProbability")
    /\ r'.ProcResetSchedProbability = r.ProcResetSchedProbability

\* C17: when LoadConfig returns an error, the fields handled before the
\* failed check have been mutated and those handled after it are untouched:
\* on the negative-shellActionInterval error the supplied minInterval,
\* maxInterval, prioritizedEntities, shellActionInterval and
\* shellActionCommand are applied while both probabilities and the running
\* flag are unchanged; on the faultActionProbability error
\* procResetSchedProbability is unchanged.
C17_PartialMutationOnError ==
    [][called' =>
          /\ (lastErr' = "shellActionInterval must be non-negative") =>
                 AfterShellIntervalError
          /\ (lastErr' = "bad faultActionProbability") =>
                 AfterFaultProbabilityError]_vars

\* A call giving minInterval 10, shellActionInterval -5 and both
\* probabilities was rejected for the interval: minInterval is stored, the
\* probabilities are the defaults.
C17_Witness ==
    /\ called
    /\ ~repeated
    /\ lastErr = "shellActionInterval must be non-negative"
    /\ lastCfg.minInterval = {10}
    /\ lastCfg.faultActionProbability = {10000}
    /\ lastCfg.procResetSchedProbability = {5000}
    /\ r.MinInterval = 10
    /\ r.ShellActionInterval = -5
    /\ r.FaultActionProbability = 0
    /\ r.ProcResetSchedProbability = ProbScale \div 10

----------------------------------------------------------------------------
(* QueueEvent *)

\* A bug: the scaled duration is rounded to nearest instead of truncated.
Prioritize_Rounds(d) ==
    (d * PrioritizeNum + 5) \div PrioritizeDen

\* time.Duration(float64(d) * 0.8)
Prioritize(d) ==
    TruncDiv(d * PrioritizeNum, PrioritizeDen)

\* A bug: only maxInterval is scaled for a prioritized entity.
ItemBounds_ScalesMaxOnly(minInterval, maxInterval, prioritized) ==
    IF prioritized
    THEN [min |-> minInterval, max |-> Prioritize(maxInterval)]
    ELSE [min |-> minInterval, max |-> maxInterval]

\* The bounds QueueEvent passes on, from the two intervals it read.
ItemBounds(minInterval, maxInterval, prioritized) ==
    IF prioritized
    THEN [min |-> Prioritize(minInterval), max |-> Prioritize(maxInterval)]
    ELSE [min |-> minInterval, max |-> maxInterval]

\* queue.NewBasicTBQueueItem accepts the bounds: not negative, min <= max.
ValidDelayBounds(min, max) ==
    0 <= min /\ min <= max

QueuePanic == "QueueEvent: invalid delay bounds"

DecidePanic == "dequeueEventRoutine: no action for the event"

ShellPanic == "shellFaultInjectionRoutine: implementation error"

\* QueueEvent(ev), run by the caller with nothing interleaved.
QueueEvent(ev) ==
    /\ crashed = NoPanic
    /\ events' = Append(events, ev)
    /\ LET b == ItemBounds(r.MinInterval, r.MaxInterval,
                           ev.entity \in r.PrioritizedEntities)
       IN  IF ValidDelayBounds(b.min, b.max)
           THEN /\ tbq' = tbq \cup {[ev |-> ev, min |-> b.min, max |-> b.max]}
                /\ crashed' = crashed
           ELSE /\ tbq' = tbq
                /\ crashed' = QueuePanic
    /\ UNCHANGED <<r, shell, loadVars, decideVars, deq, out, shellSent, raceVars>>

----------------------------------------------------------------------------
(* dequeueEventRoutine *)

\* Draws tried in the engine: the ends of 0..998 and both sides of 500.
DrawSamples ==
    {0, 499, 500, RandN - 1}

\* A bug: the routine reads the next item while its send is still pending.
DequeueAndDecide_BeforeSendCompletes ==
    /\ crashed = NoPanic
    /\ deq.pc \in {"recv", "send"}
    /\ \E item \in tbq, draw \in DrawSamples :
           LET res == makeActionForEvent(r, item.ev, draw)
           IN  /\ tbq' = tbq \ {item}
               /\ IF res.err # NoError
                  THEN /\ crashed' = DecidePanic
                       /\ deq' = [pc |-> "panic", ev |-> item.ev, action |-> res]
                  ELSE /\ crashed' = crashed
                       /\ deq' = [pc |-> "send", ev |-> item.ev, action |-> res]
    /\ UNCHANGED <<r, shell, loadVars, decideVars, events, out, shellSent, raceVars>>

\* qItem := <-r.queueDeqCh: the queue releases one of its items to the
\* routine; action, err := r.makeActionForEvent(event); a non-nil err panics.
\* (Nothing the routine reads changes between the receive and the decision
\* that a step of another task before the receive would not change as well.)
DequeueAndDecide ==
    /\ crashed = NoPanic
    /\ deq.pc = "recv"
    /\ \E item \in tbq, draw \in DrawSamples :
           LET res == makeActionForEvent(r, item.ev, draw)
           IN  /\ tbq' = tbq \ {item}
               /\ IF res.err # NoError
                  THEN /\ crashed' = DecidePanic
                       /\ deq' = [pc |-> "panic", ev |-> item.ev, action |-> res]
                  ELSE /\ crashed' = crashed
                       /\ deq' = [pc |-> "send", ev |-> item.ev, action |-> res]
    /\ UNCHANGED <<r, shell, loadVars, decideVars, events, out, shellSent, raceVars>>

\* A bug: after a send the routine sends the same action again.
AfterSend_SendsAgain(d) ==
    d

\* The routine after r.nextActionChan <- action: back at the top of its loop.
AfterSend(d) ==
    DeqWaiting

\* r.nextActionChan <- action of the dequeue routine meets the consumer's receive.
DeliverEventAction ==
    /\ crashed = NoPanic
    /\ deq.pc = "send"
    /\ out' = Append(out, [id |-> deq.ev.id, class |-> deq.action.class])
    /\ deq' = AfterSend(deq)
    /\ UNCHANGED <<r, shell, loadVars, decideVars, events, tbq, shellSent, crashed, raceVars>>

----------------------------------------------------------------------------
(* shellFaultInjectionRoutine *)

\* if r.ShellActionInterval == 0 { panic(...) }
ShellStart(i) ==
    /\ crashed = NoPanic
    /\ shell[i].pc = "start"
    /\ IF r.ShellActionInterval = 0
       THEN /\ crashed' = ShellPanic
            /\ shell' = shell
       ELSE /\ crashed' = crashed
            /\ shell' = [shell EXCEPT ![i].pc = "loop"]
    /\ UNCHANGED <<r, loadVars, decideVars, events, tbq, deq, out, shellSent, raceVars>>

\* time.After(r.ShellActionInterval): the interval is read and the timer armed.
ShellArmTimer(i) ==
    /\ crashed = NoPanic
    /\ shell[i].pc = "loop"
    /\ shell' = [shell EXCEPT ![i].pc = "wait", ![i].timer = r.ShellActionInterval]
    /\ UNCHANGED <<r, loadVars, decideVars, pipeVars, raceVars>>

\* A bug: the action is built from the command of the cycle before.
ShellTimerFires_StaleCommand(i) ==
    /\ crashed = NoPanic
    /\ shell[i].pc = "wait"
    /\ shell' = [shell EXCEPT ![i].pc = "send"]
    /\ UNCHANGED <<r, loadVars, decideVars, pipeVars, raceVars>>

\* The timer expires; signal.NewShellAction(r.ShellActionCommand, comments).
ShellTimerFires(i) ==
    /\ crashed = NoPanic
    /\ shell[i].pc = "wait"
    /\ shell' = [shell EXCEPT ![i].pc = "send", ![i].cmd = r.ShellActionCommand]
    /\ UNCHANGED <<r, loadVars, decideVars, pipeVars, raceVars>>

\* A bug: the channel is buffered, the send completes without a receiver.
DeliverShellAction_Buffered(i) ==
    /\ crashed = NoPanic
    /\ shell[i].pc = "send"
    /\ shell' = [shell EXCEPT ![i].pc = "loop"]
    /\ UNCHANGED <<r, loadVars, decideVars, pipeVars, raceVars>>

\* r.nextActionChan <- action of the shell routine meets the consumer's receive.
DeliverShellAction(i) ==
    /\ crashed = NoPanic
    /\ shell[i].pc = "send"
    /\ shellSent' = TRUE
    /\ shell' = [shell EXCEPT ![i].pc = "loop"]
    /\ UNCHANGED <<r, loadVars, decideVars, events, tbq, deq, out, crashed, raceVars>>

----------------------------------------------------------------------------
(* Spec: the engine with its caller, its two routines and its consumer *)

\* At most this many events are passed to QueueEvent under Spec.
MaxEvents == 2

\* At most this many events are passed to QueueEvent under FairSpec.
MaxFairEvents == 1

With(cfg, key, value) ==
    [cfg EXCEPT ![key] = {value}]

\* The configurations the caller loads while the engine runs.
EngineConfigs ==
    {With(With(With(With(EmptyConfig, "minInterval", 3), "maxInterval", 7),
               "prioritizedEntities", {"a"}), "faultActionProbability", 5000),
     With(EmptyConfig, "shellActionInterval", 5),
     With(With(EmptyConfig, "shellActionInterval", 0), "shellActionCommand", "cmd")}

\* The kinds of event the instrumentation reports.
EngineEventKinds ==
    {[entity |-> "a", type |-> OtherEvent,   defaultOK |-> TRUE,  hasFault |-> TRUE],
     [entity |-> "b", type |-> OtherEvent,   defaultOK |-> TRUE,  hasFault |-> FALSE],
     [entity |-> "b", type |-> OtherEvent,   defaultOK |-> FALSE, hasFault |-> FALSE],
     [entity |-> "a", type |-> OtherEvent,   defaultOK |-> FALSE, hasFault |-> TRUE],
     [entity |-> "b", type |-> ProcSetEvent, defaultOK |-> TRUE,  hasFault |-> FALSE]}

EventOfKind(id, k) ==
    [id |-> id, entity |-> k.entity, type |-> k.type,
     defaultOK |-> k.defaultOK, hasFault |-> k.hasFault]

Init ==
    /\ r = NewRandom
    /\ shell = <<>>
    /\ LoadIdle
    /\ DecideIdle
    /\ PipeIdle
    /\ RaceIdle

\* The caller reconfigures the running engine.
CallLoadConfig ==
    /\ crashed = NoPanic
    /\ \E cfg \in EngineConfigs : LoadConfig(cfg)
    /\ UNCHANGED <<loadVars, decideVars, pipeVars, raceVars>>

\* The instrumentation reports one more event, the n-th at most.
CallQueueEvent(n) ==
    /\ Len(events) < n
    /\ \E k \in EngineEventKinds : QueueEvent(EventOfKind(Len(events) + 1, k))

ShellRoutineStep ==
    \E i \in DOMAIN shell :
        \/ ShellStart(i)
        \/ ShellArmTimer(i)
        \/ ShellTimerFires(i)
        \/ DeliverShellAction(i)

Next ==
    \/ CallLoadConfig
    \/ CallQueueEvent(MaxEvents)
    \/ DequeueAndDecide
    \/ DeliverEventAction
    \/ ShellRoutineStep

Spec ==
    Init /\ [][Next]_vars

FairNext ==
    \/ CallLoadConfig
    \/ CallQueueEvent(MaxFairEvents)
    \/ DequeueAndDecide
    \/ DeliverEventAction
    \/ ShellRoutineStep

\* The Go scheduler runs every runnable goroutine, the queue releases every
\* item it holds, and the consumer keeps receiving from nextActionChan.
FairSpec ==
    /\ Init
    /\ [][FairNext]_vars
    /\ WF_vars(DequeueAndDecide)
    /\ WF_vars(DeliverEventAction)
    /\ WF_vars(ShellRoutineStep)

----------------------------------------------------------------------------
(* Claims about the engine, under Spec and FairSpec *)

\* The event was passed to QueueEvent and its queue item was constructed.
Accepted(id) ==
    /\ id \in 1 .. Len(events)
    /\ ~(crashed = QueuePanic /\ id = Len(events))

\* The queue has handed the event's item to the dequeue routine.
Released(id) ==
    /\ Accepted(id)
    /\ \A item \in tbq : item.ev.id # id

SentCount(id) ==
    Cardinality({i \in DOMAIN out : out[i].id = id})

C7_DefaultFailureIsFatal ==
    \A id \in 1 .. Len(events) :
        (events[id].type # ProcSetEvent /\ ~events[id].defaultOK) =>
            /\ SentCount(id) = 0
            /\ ~(deq.pc = "send" /\ deq.ev.id = id)
            /\ Released(id) => crashed = DecidePanic

\* y is 0.8 * d truncated to a whole tick, for a duration d that is not negative.
IsEightTenthsOf(y, d) ==
    10 * y <= 8 * d /\ 8 * d < 10 * (y + 1)

\* C8: QueueEvent submits the event with the bounds 0.8 * minInterval and
\* 0.8 * maxInterval, truncated, when the event's entity is prioritized, and
\* with minInterval and maxInterval themselves when it is not, the intervals
\* being those configured when QueueEvent is called.
C8_DelayBounds ==
    [][(events' # events /\ crashed' = NoPanic) =>
          LET ev == events'[Len(events')]
          IN  \E item \in tbq' :
                  /\ tbq' \ tbq = {item}
                  /\ item.ev = ev
                  /\ IF ev.entity \in r.PrioritizedEntities
                     THEN /\ IsEightTenthsOf(item.min, r.MinInterval)
                          /\ IsEightTenthsOf(item.max, r.MaxInterval)
                     ELSE /\ item.min = r.MinInterval
                          /\ item.max = r.MaxInterval]_vars

\* A prioritized event queued under minInterval 3 and maxInterval 7 waits
\* in the queue with the bounds 2 and 5, beside one queued unscaled.
C8_Witness ==
    /\ r.MinInterval = 3
    /\ r.MaxInterval = 7
    /\ \E item \in tbq :
           item.ev.entity \in r.PrioritizedEntities /\ item.min = 2 /\ item.max = 5
    /\ \E item \in tbq :
           item.ev.entity \notin r.PrioritizedEntities /\ item.min = 3 /\ item.max = 7

\* The shell routine sends an action, and completes the send, again and again.
ShellKeepsEmitting ==
    /\ []<>(shell # <<>> /\ shell[1].pc = "send")
    /\ []<>(shell # <<>> /\ shell[1].pc = "loop")

\* C12: once the shell-injection routine has been started, and given a
\* consumer that keeps receiving, it keeps emitting shell actions forever,
\* whatever later LoadConfig calls do; setting shellActionInterval back to 0
\* does not stop it.
C12_ShellRoutineNeverStops ==
    [](shell # <<>> => ShellKeepsEmitting)

\* What the routine does satisfy: once started it keeps emitting shell
\* actions forever unless a panic ends the process.
ShellRoutineStopsOnlyByPanic ==
    [](shell # <<>> => (ShellKeepsEmitting \/ <>(crashed # NoPanic)))

\* A step that changes the number of shell routines adds one, leaves
\* shellActionInterval positive and starts from a cleared running flag.
StartsOnlyWhenPositive ==
    (Len(shell') # Len(shell)) =>
        (Len(shell') = Len(shell) + 1 /\ r'.ShellActionInterval > 0
            /\ ~r.shelActionRoutineRunning)

\* The running flag changes only in a step that starts the routine.
FlagFollowsStart ==
    (r'.shelActionRoutineRunning # r.shelActionRoutineRunning) =>
        (Len(shell') = Len(shell) + 1)

\* A shell action is sent only by a routine that exists.
SentOnlyByRoutine ==
    (shellSent' # shellSent) => (shell # <<>>)

ShellMoves(pc, pc2) ==
    /\ shell # <<>>
    /\ shell[1].pc = pc
    /\ shell'[1].pc = pc2

\* C15: each cycle of the shell loop waits for the shellActionInterval read
\* when the cycle starts, so a LoadConfig change of the interval does not
\* touch a wait in progress, and the action the cycle emits carries the
\* shellActionCommand configured when the wait ends, whatever the command
\* was when the routine or the cycle started and whatever it becomes while
\* the send is pending.
C15_IntervalPerCycleCommandAtExpiry ==
    [][/\ ShellMoves("loop", "wait") => shell'[1].timer = r.ShellActionInterval
       /\ ShellMoves("wait", "wait") => shell'[1].timer = shell[1].timer
       /\ ShellMoves("wait", "send") => shell'[1].cmd = r.ShellActionCommand
       /\ ShellMoves("send", "send") => shell'[1].cmd = shell[1].cmd]_vars

\* The wait armed with 5 has ended after the interval was set to 0, and the
\* pending action carries the command configured by then.
C15_Witness ==
    /\ shell # <<>>
    /\ shell[1].pc = "send"
    /\ shell[1].timer = 5
    /\ shell[1].cmd = "cmd"
    /\ r.ShellActionInterval = 0
    /\ crashed = NoPanic

\* The dequeue routine with a send pending: until the consumer receives, it
\* holds that one action and takes nothing from the queue; the receive hands
\* over exactly that action and puts the routine back at its receive.
DequeueBlockedOnSend ==
    deq.pc = "send" =>
        IF deq' = deq
        THEN tbq \subseteq tbq' /\ out' = out
        ELSE /\ out' = Append(out, [id |-> deq.ev.id, class |-> deq.action.class])
             /\ deq' = DeqWaiting
             /\ tbq' = tbq

\* The consumer receives from the dequeue routine only an action it is sending.
ReceivedOnlyWhenSent ==
    out' # out => (deq.pc = "send" /\ Len(out') = Len(out) + 1)

\* The shell routine with a send pending: it stays there with the same
\* action, and starts its next cycle only when the consumer has received.
ShellBlockedOnSend ==
    (shell # <<>> /\ shell[1].pc = "send") =>
        IF shell'[1].pc = "send"
        THEN shell'[1] = shell[1]
        ELSE shell'[1].pc = "loop" /\ shellSent'

\* C16: the output stream is an unbuffered hand-off: while the consumer does
\* not receive, the dequeue routine and the shell routine are each blocked
\* holding one undelivered action, no action is dropped or duplicated, the
\* dequeue routine takes no further item from the queue, and the shell
\* routine does not begin its next wait before its pending send completes.
C16_UnbufferedHandOff ==
    /\ [][DequeueBlockedOnSend /\ ReceivedOnlyWhenSent /\ ShellBlockedOnSend]_vars
    /\ [](\A id \in 1 .. MaxEvents : SentCount(id) <= 1)

\* Both routines wait for the consumer, which has received nothing, while
\* another event waits in the queue.
C16_Witness ==
    /\ deq.pc = "send"
    /\ shell # <<>>
    /\ shell[1].pc = "send"
    /\ tbq # {}
    /\ out = <<>>
    /\ ~shellSent
    /\ crashed = NoPanic

\* The events the queue has released whose action the consumer has not received.
ReleasedUnsent ==
    {id \in 1 .. Len(events) : Released(id) /\ SentCount(id) = 0}

\* The queue releases an item in this step.
ReleaseStep ==
    tbq' # tbq /\ tbq' \subseteq tbq

\* A release finds no released event unanswered, and releases one event.
ReleaseAfterSend ==
    ReleaseStep =>
        /\ ReleasedUnsent = {}
        /\ Cardinality(tbq \ tbq') = 1
        /\ ReleasedUnsent' = {deq'.ev.id}

\* What the consumer receives next is the action of the event released last.
ReceiveOfLastReleased ==
    (out' # out) =>
        /\ ReleasedUnsent = {deq.ev.id}
        /\ ReleasedUnsent' = {}
        /\ out' = Append(out, [id |-> deq.ev.id, class |-> deq.action.class])

\* The receive of a shell action leaves the dequeue path as it is.
ShellActionApart ==
    (shellSent' # shellSent) => (out' = out /\ deq' = deq)

\* C18: the actions of the dequeue path appear on the output stream in the
\* order in which the queue released their events: the queue releases an
\* event only to a dequeue routine that has sent the action of every event
\* released before, and what the consumer receives next is the action of the
\* event released last; shell actions do not change that order.
C18_OutputInReleaseOrder ==
    /\ [](ReleasedUnsent \subseteq (IF deq.pc = "recv" THEN {} ELSE {deq.ev.id}))
    /\ [][ReleaseAfterSend /\ ReceiveOfLastReleased /\ ShellActionApart]_vars

\* The event queued second was released and answered first, then the event
\* queued first; a shell action was received as well.
C18_Witness ==
    /\ Len(out) = 2
    /\ out[1].id = 2
    /\ out[2].id = 1
    /\ shellSent
    /\ crashed = NoPanic

\* C19: the start-up assertion of the shell-injection routine never fails:
\* in every execution, also when a LoadConfig call sets shellActionInterval
\* back to 0 after the routine was spawned and before its first step, the
\* routine finds shellActionInterval non-zero and does not panic.
C19_StartupAssertionNeverFails ==
    crashed # ShellPanic

----------------------------------------------------------------------------
(* SpecBounds: LoadConfig calls that give only the intervals and the        *)
(* prioritized entities, and QueueEvent calls between them                  *)

\* Configurations of minInterval, maxInterval and prioritizedEntities.
BoundsConfigs ==
    [minInterval               : Opt({-5, 0, 10}),
     maxInterval               : Opt({7}),
     prioritizedEntities       : Opt({{"a"}, {"b"}, {}}),
     shellActionInterval       : {{}},
     shellActionCommand        : {{}},
     faultActionProbability    : {{}},
     procResetSchedProbability : {{}}]

\* The caller calls LoadConfig and keeps what it returned.
BoundsLoadCall ==
    /\ crashed = NoPanic
    /\ \E cfg \in BoundsConfigs :
           /\ LoadConfig(cfg)
           /\ lastErr' = LoadConfigResult(r, cfg).err
           /\ lastCfg' = cfg
    /\ called' = TRUE
    /\ repeated' = FALSE
    /\ UNCHANGED <<decideVars, pipeVars, raceVars>>

\* The events reported under SpecBounds: one of each entity.
BoundsEventKinds ==
    {[entity |-> "a", type |-> OtherEvent, defaultOK |-> TRUE, hasFault |-> TRUE],
     [entity |-> "b", type |-> OtherEvent, defaultOK |-> TRUE, hasFault |-> FALSE]}

BoundsQueueEvent ==
    /\ Len(events) < MaxFairEvents
    /\ \E k \in BoundsEventKinds : QueueEvent(EventOfKind(Len(events) + 1, k))

NextBounds ==
    \/ BoundsLoadCall
    \/ BoundsQueueEvent

SpecBounds ==
    Init /\ [][NextBounds]_vars

\* The bounds QueueEvent would pass to the queue in this state are accepted,
\* for a prioritized entity and for one that is not.
QueueEventBoundsValid ==
    \A prioritized \in BOOLEAN :
        LET b == ItemBounds(r.MinInterval, r.MaxInterval, prioritized)
        IN  ValidDelayBounds(b.min, b.max)

\* C14: in every state reached through LoadConfig calls that all returned no
\* error (every call of SpecBounds returns none), minInterval and maxInterval
\* are non-negative with minInterval <= maxInterval, the 0.8 scaling keeps
\* that relation, and QueueEvent never reaches the fatal failure to construct
\* the queue item.
C14_ValidBoundsAfterAcceptedConfig ==
    lastErr = NoError =>
        /\ ValidDelayBounds(r.MinInterval, r.MaxInterval)
        /\ QueueEventBoundsValid
        /\ crashed # QueuePanic

\* C14 as amended: LoadConfig accepts any minInterval and maxInterval without
\* an error; whenever the stored intervals are non-negative with minInterval
\* <= maxInterval (as after a call that gives no maxInterval and leaves a
\* non-negative minInterval) the 0.8 scaling keeps the relation, and
\* QueueEvent fails only when the stored intervals are negative or crossed.
C14_ScalingKeepsValidBounds ==
    /\ lastErr = NoError
    /\ ValidDelayBounds(r.MinInterval, r.MaxInterval) => QueueEventBoundsValid
    /\ (called /\ ~IsSet(lastCfg, "maxInterval") /\ r.MinInterval >= 0) =>
           ValidDelayBounds(r.MinInterval, r.MaxInterval)
    /\ crashed = QueuePanic => ~ValidDelayBounds(r.MinInterval, r.MaxInterval)

\* An event of a prioritized entity was queued under minInterval =
\* maxInterval = 10 with the bounds 8 and 8.
C14_Witness ==
    /\ r.MinInterval = 10
    /\ r.MaxInterval = 10
    /\ crashed = NoPanic
    /\ \E item \in tbq :
           item.ev.entity \in r.PrioritizedEntities /\ item.min = 8 /\ item.max = 8

\* The entity ids the configuration lists.
Listed(cfg) ==
    IF IsSet(cfg, "prioritizedEntities") THEN Get(cfg, "prioritizedEntities") ELSE {}

\* QueueEvent, called for an entity that is prioritized, queues the event
\* with the scaled bounds.
PrioritizedStillScaled ==
    (events' # events /\ crashed' = NoPanic) =>
        LET ev == events'[Len(events')]
        IN  ev.entity \in r.PrioritizedEntities =>
                (tbq' \ tbq) = {[ev |-> ev, min |-> Prioritize(r.MinInterval),
                                 max |-> Prioritize(r.MaxInterval)]}

\* C20: the prioritizedEntities set only grows: a LoadConfig call adds the
\* entity ids it lists and removes none, also when it lists other ids or an
\* empty list, so an entity prioritized by an earlier call stays prioritized
\* and its events keep getting the 0.8 scaling in QueueEvent.
C20_PrioritizedEntitiesOnlyGrow ==
    [][/\ r.PrioritizedEntities \subseteq r'.PrioritizedEntities
       /\ called' => (r'.PrioritizedEntities = r.PrioritizedEntities \cup Listed(lastCfg'))
       /\ PrioritizedStillScaled]_vars

\* After calls that listed "a" and "b", the latest call listed nothing and
\* gave minInterval 10; an event of "a" was then queued with the bounds 8 and 8.
C20_Witness ==
    /\ called
    /\ lastCfg.prioritizedEntities = {{}}
    /\ lastCfg.minInterval = {10}
    /\ r.PrioritizedEntities = {"a", "b"}
    /\ \E item \in tbq : item.ev.entity = "a" /\ item.min = 8 /\ item.max = 8
    /\ crashed = NoPanic

----------------------------------------------------------------------------
(* SpecRace: LoadConfig callers and a QueueEvent caller running at once.   *)
(* The code takes no lock, so their statements interleave; every step here *)
(* is one statement of LoadConfig or QueueEvent.  Each caller makes one    *)
(* call.                                                                   *)

\* The configurations the concurrent LoadConfig callers pass.
RaceConfigs ==
    {With(EmptyConfig, "minInterval", 10),
     With(EmptyConfig, "shellActionInterval", 5),
     With(EmptyConfig, "shellActionInterval", -5),
     With(With(EmptyConfig, "faultActionProbability", 11000),
          "procResetSchedProbability", 11000),
     With(EmptyConfig, "procResetSchedProbability", 11000)}

Intervals(s) ==
    <<s.MinInterval, s.MaxInterval>>

RaceFrame ==
    UNCHANGED <<loadVars, decideVars, pipeVars, lcfg, qpc, qloc, snaps>>

\* Caller l goes on to the statement at pc.
Goto(l, pc) ==
    lpc' = [lpc EXCEPT ![l] = pc]

At(l, pc) ==
    crashed = NoPanic /\ lpc[l] = pc

\* func (r *Random) LoadConfig(cfg config.Config) error {
RaceCall(l) ==
    /\ At(l, "idle")
    /\ \E cfg \in RaceConfigs : lcfg' = [lcfg EXCEPT ![l] = cfg]
    /\ Goto(l, "minInterval")
    /\ snaps' = snaps \cup {Intervals(r)}
    /\ UNCHANGED <<r, shell, loadVars, decideVars, pipeVars, qpc, qloc>>

RaceSetMinInterval(l) ==
    /\ At(l, "minInterval")
    /\ r' = SetMinInterval(r, lcfg[l])
    /\ Goto(l, "maxInterval")
    /\ UNCHANGED shell /\ RaceFrame

RaceSetMaxInterval(l) ==
    /\ At(l, "maxInterval")
    /\ r' = SetMaxInterval(r, lcfg[l])
    /\ Goto(l, "prioritizedEntities")
    /\ UNCHANGED shell /\ RaceFrame

RaceSetPrioritizedEntities(l) ==
    /\ At(l, "prioritizedEntities")
    /\ r' = SetPrioritizedEntities(r, lcfg[l])
    /\ Goto(l, "shellActionInterval")
    /\ UNCHANGED shell /\ RaceFrame

RaceSetShellActionInterval(l) ==
    /\ At(l, "shellActionInterval")
    /\ r' = SetShellActionInterval(r, lcfg[l])
    /\ Goto(l, "shellActionCommand")
    /\ UNCHANGED shell /\ RaceFrame

RaceSetShellActionCommand(l) ==
    /\ At(l, "shellActionCommand")
    /\ r' = SetShellActionCommand(r, lcfg[l])
    /\ Goto(l, "checkInterval")
    /\ UNCHANGED shell /\ RaceFrame

\* if r.ShellActionInterval < 0 { return fmt.Errorf(...) }
RaceCheckShellInterval(l) ==
    /\ At(l, "checkInterval")
    /\ Goto(l, IF ShellIntervalNegative(r) THEN "return" ELSE "checkRunning")
    /\ UNCHANGED <<r, shell>> /\ RaceFrame

\* if r.ShellActionInterval > 0 && !r.shelActionRoutineRunning {
RaceCheckRunning(l) ==
    /\ At(l, "checkRunning")
    /\ Goto(l, IF MustStartShellRoutine(r) THEN "setRunning" ELSE "faultActionProbability")
    /\ UNCHANGED <<r, shell>> /\ RaceFrame

\* r.shelActionRoutineRunning = true
RaceSetRunning(l) ==
    /\ At(l, "setRunning")
    /\ r' = SetRoutineRunning(r)
    /\ Goto(l, "spawn")
    /\ UNCHANGED shell /\ RaceFrame

\* go r.shellFaultInjectionRoutine()
RaceSpawn(l) ==
    /\ At(l, "spawn")
    /\ shell' = Append(shell, NewShellRoutine)
    /\ Goto(l, "faultActionProbability")
    /\ UNCHANGED r /\ RaceFrame

RaceSetFaultActionProbability(l) ==
    /\ At(l, "faultActionProbability")
    /\ r' = SetFaultActionProbability(r, lcfg[l])
    /\ Goto(l, "checkFault")
    /\ UNCHANGED shell /\ RaceFrame

RaceCheckFaultActionProbability(l) ==
    /\ At(l, "checkFault")
    /\ Goto(l, IF BadFaultActionProbability(r) THEN "return" ELSE "procResetSchedProbability")
    /\ UNCHANGED <<r, shell>> /\ RaceFrame

RaceSetProcResetSchedProbability(l) ==
    /\ At(l, "procResetSchedProbability")
    /\ r' = SetProcResetSchedProbability(r, lcfg[l])
    /\ Goto(l, "checkProc")
    /\ UNCHANGED shell /\ RaceFrame

\* The last check: return the error, or return nil.
RaceCheckProcResetSchedProbability(l) ==
    /\ At(l, "checkProc")
    /\ Goto(l, "return")
    /\ UNCHANGED <<r, shell>> /\ RaceFrame

\* The call returns to its caller.
RaceReturn(l) ==
    /\ At(l, "return")
    /\ Goto(l, "returned")
    /\ snaps' = snaps \cup {Intervals(r)}
    /\ UNCHANGED <<r, shell, loadVars, decideVars, pipeVars, lcfg, qpc, qloc>>

LoadConfigStep(l) ==
    \/ RaceCall(l)
    \/ RaceSetMinInterval(l)
    \/ RaceSetMaxInterval(l)
    \/ RaceSetPrioritizedEntities(l)
    \/ RaceSetShellActionInterval(l)
    \/ RaceSetShellActionCommand(l)
    \/ RaceCheckShellInterval(l)
    \/ RaceCheckRunning(l)
    \/ RaceSetRunning(l)
    \/ RaceSpawn(l)
    \/ RaceSetFaultActionProbability(l)
    \/ RaceCheckFaultActionProbability(l)
    \/ RaceSetProcResetSchedProbability(l)
    \/ RaceCheckProcResetSchedProbability(l)
    \/ RaceReturn(l)

QFrame ==
    UNCHANGED <<r, shell, loadVars, decideVars, deq, out, shellSent, lpc, lcfg, snaps>>

\* QueueEvent(event) is called: minInterval := r.MinInterval
QReadMinInterval ==
    /\ crashed = NoPanic
    /\ qpc = "idle"
    /\ \E k \in EngineEventKinds :
           qloc' = [ev |-> EventOfKind(1, k), minInterval |-> r.MinInterval,
                    maxInterval |-> 0]
    /\ qpc' = "maxInterval"
    /\ UNCHANGED <<events, tbq, crashed>> /\ QFrame

\* maxInterval := r.MaxInterval
QReadMaxInterval ==
    /\ crashed = NoPanic
    /\ qpc = "maxInterval"
    /\ qloc' = [qloc EXCEPT !.maxInterval = r.MaxInterval]
    /\ qpc' = "prioritized"
    /\ UNCHANGED <<events, tbq, crashed>> /\ QFrame

\* The lookup in r.PrioritizedEntities, the scaling, the construction of the
\* queue item and r.queue.Enqueue(item).
QSubmit ==
    /\ crashed = NoPanic
    /\ qpc = "prioritized"
    /\ LET b == ItemBounds(qloc.minInterval, qloc.maxInterval,
                           qloc.ev.entity \in r.PrioritizedEntities)
       IN  IF ValidDelayBounds(b.min, b.max)
           THEN /\ tbq' = tbq \cup {[ev |-> qloc.ev, min |-> b.min, max |-> b.max]}
                /\ crashed' = crashed
           ELSE /\ tbq' = tbq
                /\ crashed' = QueuePanic
    /\ events' = Append(events, qloc.ev)
    /\ qpc' = "returned"
    /\ UNCHANGED qloc /\ QFrame

QueueEventStep ==
    \/ QReadMinInterval
    \/ QReadMaxInterval
    \/ QSubmit

InitRace ==
    /\ r = NewRandom
    /\ shell = <<>>
    /\ LoadIdle
    /\ DecideIdle
    /\ PipeIdle
    /\ RaceIdle

NextRace ==
    \/ \E l \in Loaders : LoadConfigStep(l)
    \/ QueueEventStep

SpecRace ==
    InitRace /\ [][NextRace]_vars

\* C2: under any interleaving of concurrent LoadConfig calls on one engine,
\* at most one shell-injection routine is ever running: the check of the
\* running flag and the start of the routine never start two.
C2_AtMostOneShellRoutine ==
    Len(shell) <= 1

\* C4: QueueEvent, running while LoadConfig runs, never reads a partially
\* updated configuration: the minInterval and maxInterval it has read are
\* the pair as it stood before a LoadConfig call or after one, never the
\* minInterval of one and the maxInterval of the other.
C4_NoTornConfiguration ==
    (qpc = "prioritized") =>
        <<qloc.minInterval, qloc.maxInterval>> \in snaps \cup {Intervals(NewRandom)}

====
